---- MODULE Spec2Model ----
(***************************************************************************)
(* A model of the CCISO testing engine (src/app.py): the exam assembler,   *)
(* the scorer, the exam timer and the Streamlit session state machine that *)
(* drives them.  Positions of the answer map are 0-based as in the code;   *)
(* TLA+ sequences are 1-based, so exam_questions[i] of the code is         *)
(* exam_questions[i + 1] here.                                             *)
(***************************************************************************)
EXTENDS Integers, Sequences, FiniteSets, TLC

(***************************************************************************)
(* Program constants                                                       *)
(***************************************************************************)
EXAM_DISTRIBUTION == <<32, 30, 32, 29, 29>>

TOTAL_EXAM_QUESTIONS == 152

PASSING_PERCENTAGE == 80

EXAM_DURATION_MINUTES == 150

(***************************************************************************)
(* Bounds of the model                                                     *)
(***************************************************************************)
\* outcomes of the pseudo-random source explored per draw
MaxDraws == 2

\* assembler corpora: unit deviations from the corpus that meets every quota exactly
MaxDelta == 1

\* assembler corpora: size of the small corpora
MaxSmall == 2

\* clock resolution: clock readings per second
TicksPerSecond == 2

\* scorer inputs: length of the exhaustively enumerated exam sets
MaxExhaustive == 3

\* scorer inputs: length of the patterned exam sets
MaxPatterned == 10

\* parser inputs: records per text in the texts of several records
MaxRecords == 2

\* session machine: the domains with a quota in the table it assembles with
SessionDomains == 2

\* session machine: the domains 1..MaxStudyDomain are picked in the study setup
MaxStudyDomain == 3

(***************************************************************************)
(* Helpers                                                                 *)
(***************************************************************************)
Min(a, b) == IF a <= b THEN a ELSE b

Max(a, b) == IF a >= b THEN a ELSE b

RECURSIVE SumTo(_, _)
\* f[0] + ... + f[n]
SumTo(f, n) == IF n < 0 THEN 0 ELSE f[n] + SumTo(f, n - 1)

Abs(x) == IF x < 0 THEN 0 - x ELSE x

\* the elements of a sequence, as a set
Range(s) == {s[i] : i \in 1..Len(s)}

\* number of positions of s holding x
Occurrences(s, x) == Cardinality({i \in 1..Len(s) : s[i] = x})

(***************************************************************************)
(* Data model: options and questions as parse_questions builds them        *)
(***************************************************************************)
Letters == {"A", "B", "C", "D"}

Opt(l, c) == [letter |-> l, isCorrect |-> c]

MkQuestion(i, d, opts) == [id |-> i, domainNumber |-> d, options |-> opts]

\* the domains the assembler and the study setup iterate over
Domains == 1..5

\* get_questions_by_domain: the questions of one domain, in corpus order
get_questions_by_domain(qs, domain) ==
    SelectSeq(qs, LAMBDA q : q.domainNumber = domain)

\* the comprehension of line 161: the questions outside one domain
other_questions(qs, domain) ==
    SelectSeq(qs, LAMBDA q : q.domainNumber # domain)

(***************************************************************************)
(* The pseudo-random source.  A call that returns is an outcome            *)
(* [raised |-> FALSE, value |-> v]; a call that raises is Raised.          *)
(***************************************************************************)
Raised == [raised |-> TRUE, value |-> <<>>]

Returned(v) == [raised |-> FALSE, value |-> v]

\* k elements of population, cyclically from offset s: one draw without replacement
Window(population, k, s) ==
    IF k = 0 THEN <<>>
    ELSE [j \in 1..k |-> population[((s + j - 1) % Len(population)) + 1]]

\* the offsets explored for a population of n elements
DrawOffsets(n) == 0..(Max(1, Min(n, MaxDraws)) - 1)

\* random.sample(population, k): ValueError when k exceeds the population,
\* else k distinct positions of it; the draws explored are the cyclic windows
random_sample(population, k) ==
    IF k > Len(population) \/ k < 0
    THEN {Raised}
    ELSE {Returned(Window(population, k, s)) : s \in DrawOffsets(Len(population))}

\* random.shuffle(x): a permutation of x; the ones explored are its rotations
random_shuffle(x) ==
    {Window(x, Len(x), s) : s \in DrawOffsets(Len(x))}

(***************************************************************************)
(* select_exam_questions                                                   *)
(***************************************************************************)
\* mutant of ShortfallDraw: the fill takes every question outside the domain
ShortfallDraw_All(remaining, others) == Len(others)

\* mutant of ShortfallDraw: the fill is not capped by the size of the other pool
ShortfallDraw_Uncapped(remaining, others) == remaining

\* what one deficient domain asks of the other domains: min(remaining, len(other))
ShortfallDraw(remaining, others) == Min(remaining, Len(others))

\* mutant of DomainPass: the quota is drawn from the whole corpus, not the domain
DomainPass_WholeCorpus(qs, domain, count, chosen) ==
    {IF r.raised THEN Raised ELSE Returned(chosen \o r.value) :
         r \in random_sample(qs, Min(count, Len(qs)))}

\* mutant of DomainPass: the fill leaves out the questions chosen so far
DomainPass_Excluding(qs, domain, count, chosen) ==
    LET domain_questions == get_questions_by_domain(qs, domain)
        remaining == count - Len(domain_questions)
        others == SelectSeq(other_questions(qs, domain),
                            LAMBDA q : q \notin Range(chosen))
    IN  IF Len(domain_questions) >= count
        THEN {IF r.raised THEN Raised ELSE Returned(chosen \o r.value) :
                  r \in random_sample(domain_questions, count)}
        ELSE IF others # <<>>
             THEN {IF r.raised THEN Raised
                   ELSE Returned(chosen \o domain_questions \o r.value) :
                       r \in random_sample(others, ShortfallDraw(remaining, others))}
             ELSE {Returned(chosen \o domain_questions)}

\* one iteration of the loop of lines 152-163 for (domain, count), from the list
\* chosen so far
DomainPass(qs, domain, count, chosen) ==
    LET domain_questions == get_questions_by_domain(qs, domain)
        remaining == count - Len(domain_questions)
        others == other_questions(qs, domain)
    IN  IF Len(domain_questions) >= count
        THEN {IF r.raised THEN Raised ELSE Returned(chosen \o r.value) :
                  r \in random_sample(domain_questions, count)}
        ELSE IF others # <<>>
             THEN {IF r.raised THEN Raised
                   ELSE Returned(chosen \o domain_questions \o r.value) :
                       r \in random_sample(others, ShortfallDraw(remaining, others))}
             ELSE {Returned(chosen \o domain_questions)}

RECURSIVE SelectLoop(_, _, _, _)
\* the for loop over the items of the quota table, domains 1..5 in insertion order
SelectLoop(qs, distribution, domain, acc) ==
    IF acc.raised THEN {Raised}
    ELSE IF domain > Len(distribution) THEN {acc}
    ELSE UNION {SelectLoop(qs, distribution, domain + 1, r) :
                    r \in DomainPass(qs, domain, distribution[domain], acc.value)}

\* every result of the body of select_exam_questions under a quota table
SelectWith(qs, distribution) ==
    UNION {IF r.raised THEN {Raised} ELSE {Returned(x) : x \in random_shuffle(r.value)} :
               r \in SelectLoop(qs, distribution, 1, Returned(<<>>))}

\* every result select_exam_questions(questions) can produce
select_exam_questions(qs) == SelectWith(qs, EXAM_DISTRIBUTION)

(***************************************************************************)
(* calculate_score                                                         *)
(***************************************************************************)
\* mutant of correct_option: the last option marked correct is taken
correct_option_Last(options) ==
    IF \E k \in 1..Len(options) : options[k].isCorrect
    THEN CHOOSE k \in 1..Len(options) :
             /\ options[k].isCorrect
             /\ \A j \in (k + 1)..Len(options) : ~options[j].isCorrect
    ELSE 0

\* next((opt for opt in options if opt['isCorrect']), None): the index of the
\* first option marked correct, 0 for None
correct_option(options) ==
    IF \E k \in 1..Len(options) : options[k].isCorrect
    THEN CHOOSE k \in 1..Len(options) :
             /\ options[k].isCorrect
             /\ \A j \in 1..(k - 1) : ~options[j].isCorrect
    ELSE 0

\* mutant of AnswerAt: a missing answer defaults to the first letter
AnswerAt_Default(answers, i) ==
    IF i \in DOMAIN answers THEN [has |-> TRUE, value |-> answers[i]]
    ELSE [has |-> TRUE, value |-> "A"]

\* user_answers.get(i): [has, value], has = FALSE for None
AnswerAt(answers, i) ==
    IF i \in DOMAIN answers THEN [has |-> TRUE, value |-> answers[i]]
    ELSE [has |-> FALSE, value |-> ""]

\* mutant of PositionScore: correct_option['letter'] is read without the guard
\* on correct_option, which raises TypeError on None
PositionScore_Unguarded(question, answer) ==
    IF ~(answer.has /\ answer.value # "")
    THEN [raised |-> FALSE, credit |-> 0]
    ELSE LET c == correct_option(question.options)
         IN  IF c = 0 THEN [raised |-> TRUE, credit |-> 0]
             ELSE [raised |-> FALSE,
                   credit |-> IF answer.value = question.options[c].letter
                              THEN 1 ELSE 0]

\* the body of the loop of lines 174-179 at one position: what it adds to correct
PositionScore(question, answer) ==
    IF ~(answer.has /\ answer.value # "")
    THEN [raised |-> FALSE, credit |-> 0]
    ELSE LET c == correct_option(question.options)
         IN  [raised |-> FALSE,
              credit |-> IF c # 0 /\ answer.value = question.options[c].letter
                         THEN 1 ELSE 0]

\* correct / total * 100 when total > 0, else 0: the exact quotient num / den.
\* (The double the code computes orders against 80 as the exact quotient does.)
Percentage(correct, total) ==
    IF total > 0 THEN [num |-> correct * 100, den |-> total]
    ELSE [num |-> 0, den |-> 1]

\* mutant of Passed: the threshold itself fails
Passed_Strict(percentage) == percentage.num > PASSING_PERCENTAGE * percentage.den

\* percentage >= PASSING_PERCENTAGE
Passed(percentage) == percentage.num >= PASSING_PERCENTAGE * percentage.den

RECURSIVE CorrectCount(_, _, _)
\* the loop of lines 174-179 over the first n positions
CorrectCount(exam, answers, n) ==
    IF n = 0 THEN 0
    ELSE CorrectCount(exam, answers, n - 1)
             + PositionScore(exam[n], AnswerAt(answers, n - 1)).credit

calculate_score(exam, answers) ==
    LET total == Len(exam)
        correct == CorrectCount(exam, answers, total)
        percentage == Percentage(correct, total)
    IN  [raised |-> \E n \in 1..total :
                        PositionScore(exam[n], AnswerAt(answers, n - 1)).raised,
         correct |-> correct,
         total |-> total,
         percentage |-> percentage,
         passed |-> Passed(percentage)]

(***************************************************************************)
(* State: st.session_state, the widgets' state, and the value returned by  *)
(* the function a pure-function specification applies                      *)
(***************************************************************************)
VARIABLES
    questions,               \* the corpus: the last upload that parsed to questions
    mode,                    \* "main", "practice_exam", "study_setup", "study"
    exam_questions,          \* the exam set of the session
    current_question_index,  \* 0-based position shown
    user_answers,            \* the answer map: position -> letter
    exam_end_time,           \* [set, ticks]: ticks from the clock's reading to the deadline
    show_results,
    show_review,
    study_domain,
    study_num_questions,
    show_feedback,
    current_answer_correct,  \* "None", "True", "False"
    file_uploaded,
    show_exit_confirm,
    uploaded_file,           \* the file uploader's state: [present, parsed]
    selected,                \* the radio's state on the question shown: a letter or "None"
    ret,                     \* the call made by a pure-function specification
    scored                   \* history: the results were shown since the last session start

vars == <<questions, mode, exam_questions, current_question_index, user_answers,
          exam_end_time, show_results, show_review, study_domain,
          study_num_questions, show_feedback, current_answer_correct,
          file_uploaded, show_exit_confirm, uploaded_file, selected, ret, scored>>

NoEndTime == [set |-> FALSE, ticks |-> 0]

NoFile == [present |-> FALSE, parsed |-> <<>>]

NotCalled == [fn |-> "none"]

\* initialize_session_state on an empty session, but for the corpus, the exam
\* set and the answer map
SessionDefaults ==
    /\ mode = "main"
    /\ current_question_index = 0
    /\ exam_end_time = NoEndTime
    /\ show_results = FALSE
    /\ show_review = FALSE
    /\ study_domain = 1
    /\ study_num_questions = 10
    /\ show_feedback = FALSE
    /\ current_answer_correct = "None"
    /\ file_uploaded = FALSE
    /\ show_exit_confirm = FALSE
    /\ scored = FALSE

\* the history of a step: the results are on show after it, or were shown
\* before it and the step starts no session
ScoredStep ==
    scored' = \/ show_results'
              \/ /\ scored
                 /\ ~(mode \notin {"practice_exam", "study"}
                          /\ mode' \in {"practice_exam", "study"})

(***************************************************************************)
(* The session machine: one action per script run that changes the state.  *)
(* A run is a render of the screen main() routes to, with at most one       *)
(* widget event (a click, a choice, an upload) delivered to it.             *)
(***************************************************************************)
\* The quota table the session machine assembles with: one question for each
\* of the first SessionDomains domains and none for the others, which keeps the
\* exam sets small enough to explore every answer map on them.  SpecAssemble
\* uses EXAM_DISTRIBUTION itself.
SessionDistribution ==
    [d \in 1..Len(EXAM_DISTRIBUTION) |->
        IF d <= SessionDomains THEN Min(EXAM_DISTRIBUTION[d], 1) ELSE 0]

\* the uploads explored, each given by what parse_questions makes of the file:
\* no valid question; two questions of domain 1, the first with two options,
\* the second with one option and none marked correct, and one question of
\* domain 3
UploadCorpora ==
    {<<>>,
     <<MkQuestion(1, 1, <<Opt("A", TRUE), Opt("B", FALSE)>>),
       MkQuestion(2, 1, <<Opt("B", FALSE)>>),
       MkQuestion(3, 3, <<Opt("C", TRUE)>>)>>}

\* the domains the user picks in the study setup
SetupDomainChoices == 1..MaxStudyDomain

Init ==
    /\ SessionDefaults
    /\ questions = <<>>
    /\ exam_questions = <<>>
    /\ user_answers = <<>>
    /\ uploaded_file = NoFile
    /\ selected = "None"
    /\ ret = NotCalled

\* ---- the timer ----

ExamDurationTicks == EXAM_DURATION_MINUTES * 60 * TicksPerSecond

\* int(x) for x = a / b: truncation towards zero
TruncDiv(a, b) == IF a >= 0 THEN a \div b ELSE 0 - ((0 - a) \div b)

\* get_remaining_time: max(0, int(seconds to exam_end_time)), 0 without an end time
get_remaining_time(end) ==
    IF end.set THEN Max(0, TruncDiv(end.ticks, TicksPerSecond)) ELSE 0

\* mutant of Expired: only a negative remaining time counts as expired
Expired_Strict(remaining_time) == remaining_time < 0

\* the test of line 281
Expired(remaining_time) == remaining_time <= 0

\* The wall clock advances between two renders of the question screen, the
\* only reader of the clock (line 279): ticks is the time to the deadline at
\* the latest reading.  The readings explored are the start of the exam and the
\* readings from one second before the deadline to one tick past it.
Tick ==
    /\ mode = "practice_exam" /\ ~show_review /\ ~show_results
    /\ exam_end_time.set
    /\ exam_end_time.ticks > 0 - 1
    /\ exam_end_time' =
           [set |-> TRUE,
            ticks |-> IF exam_end_time.ticks > TicksPerSecond
                      THEN TicksPerSecond ELSE exam_end_time.ticks - 1]
    /\ UNCHANGED <<questions, mode, exam_questions, current_question_index,
                   user_answers, show_results, show_review, study_domain,
                   study_num_questions, show_feedback, current_answer_correct,
                   file_uploaded, show_exit_confirm, uploaded_file, selected, ret>>
    /\ ScoredStep

\* ---- the main menu (render_main_menu) ----

\* mutant of OnMain: the main menu is live on every screen
OnMain_Any == TRUE

OnMain == mode = "main"

\* mutant of MenuBlocked: the render goes on after an upload without questions
MenuBlocked_Never(f) == FALSE

\* lines 218-220: the upload parsed to no question, the render returns early
MenuBlocked(f) == f.present /\ f.parsed = <<>>

\* line 222, reached when the upload parsed to questions
QuestionsAfterUpload(f, qs) == IF f.present /\ f.parsed # <<>> THEN f.parsed ELSE qs

\* line 223
UploadedAfterUpload(f, flag) == IF f.present /\ f.parsed # <<>> THEN TRUE ELSE flag

\* line 241: the mode buttons are rendered
ModeButtonsShown(f) ==
    /\ ~MenuBlocked(f)
    /\ UploadedAfterUpload(f, file_uploaded)
    /\ QuestionsAfterUpload(f, questions) # <<>>

\* the user uploads a file
UploadFile ==
    /\ OnMain
    /\ \E c \in UploadCorpora :
           LET f == [present |-> TRUE, parsed |-> c]
           IN  /\ f # uploaded_file
               /\ uploaded_file' = f
               /\ questions' = QuestionsAfterUpload(f, questions)
               /\ file_uploaded' = UploadedAfterUpload(f, file_uploaded)
    /\ UNCHANGED <<mode, exam_questions, current_question_index, user_answers,
                   exam_end_time, show_results, show_review, study_domain,
                   study_num_questions, show_feedback, current_answer_correct,
                   show_exit_confirm, selected, ret>>
    /\ ScoredStep

\* the user removes the file from the uploader
RemoveFile ==
    /\ OnMain
    /\ uploaded_file.present
    /\ uploaded_file' = NoFile
    /\ UNCHANGED <<questions, mode, exam_questions, current_question_index,
                   user_answers, exam_end_time, show_results, show_review,
                   study_domain, study_num_questions, show_feedback,
                   current_answer_correct, file_uploaded, show_exit_confirm,
                   selected, ret>>
    /\ ScoredStep

\* previous_answer and default_index of lines 316-322, as the letter the radio
\* starts on: the recorded answer when an option carries it, else None
DefaultSelection(exam, answers, idx) ==
    IF /\ idx \in DOMAIN answers
       /\ idx + 1 \in 1..Len(exam)
       /\ \E k \in 1..Len(exam[idx + 1].options) :
              exam[idx + 1].options[k].letter = answers[idx]
    THEN answers[idx]
    ELSE "None"

\* start_practice_exam, called by the Practice Exam button
start_practice_exam ==
    /\ OnMain
    /\ ModeButtonsShown(uploaded_file)
    /\ questions' = QuestionsAfterUpload(uploaded_file, questions)
    /\ file_uploaded' = UploadedAfterUpload(uploaded_file, file_uploaded)
    /\ \E r \in SelectWith(QuestionsAfterUpload(uploaded_file, questions),
                           SessionDistribution) :
           /\ ~r.raised
           /\ exam_questions' = r.value
    /\ current_question_index' = 0
    /\ user_answers' = <<>>
    /\ exam_end_time' = [set |-> TRUE, ticks |-> ExamDurationTicks]
    /\ show_results' = FALSE
    /\ show_review' = FALSE
    /\ show_exit_confirm' = FALSE
    /\ mode' = "practice_exam"
    /\ uploaded_file' = NoFile
    /\ selected' = "None"
    /\ UNCHANGED <<study_domain, study_num_questions, show_feedback,
                   current_answer_correct, ret>>
    /\ ScoredStep

\* mutant of NumberShown: the stored count is shown as it is
NumberShown_Unclamped(num, max_questions) == num

\* the number input's value: min(study_num_questions, max_questions) of line
\* 518 unless the user enters another number of the range
NumberShown(num, max_questions) == Min(num, max_questions)

\* lines 494-520, run by every render of the study setup on corpus qs with the
\* domain of the select box: study_num_questions after the render, which
\* returns at line 506 before the write of line 520 when the pool is empty
SetupRender(qs, domain_number, num) ==
    LET max_questions == Len(get_questions_by_domain(qs, domain_number))
    IN  IF max_questions = 0 THEN num ELSE NumberShown(num, max_questions)

\* the Study Mode button, and the render of the setup its rerun leads to
ClickStudyMode ==
    /\ OnMain
    /\ ModeButtonsShown(uploaded_file)
    /\ questions' = QuestionsAfterUpload(uploaded_file, questions)
    /\ file_uploaded' = UploadedAfterUpload(uploaded_file, file_uploaded)
    /\ mode' = "study_setup"
    /\ study_num_questions' = SetupRender(questions', study_domain, study_num_questions)
    /\ uploaded_file' = NoFile
    /\ UNCHANGED <<exam_questions, current_question_index, user_answers,
                   exam_end_time, show_results, show_review, study_domain,
                   show_feedback, current_answer_correct, show_exit_confirm,
                   selected, ret>>
    /\ ScoredStep

\* the Exit button: st.session_state.clear(), then the rerun initializes the
\* session again and renders the main menu, whose uploader may still hold the file
ClickExit ==
    /\ OnMain
    /\ ModeButtonsShown(uploaded_file)
    /\ \E f \in {uploaded_file, NoFile} :
           /\ uploaded_file' = f
           /\ questions' = QuestionsAfterUpload(f, <<>>)
           /\ file_uploaded' = UploadedAfterUpload(f, FALSE)
    /\ mode' = "main"
    /\ exam_questions' = <<>>
    /\ current_question_index' = 0
    /\ user_answers' = <<>>
    /\ exam_end_time' = NoEndTime
    /\ show_results' = FALSE
    /\ show_review' = FALSE
    /\ study_domain' = 1
    /\ study_num_questions' = 10
    /\ show_feedback' = FALSE
    /\ current_answer_correct' = "None"
    /\ show_exit_confirm' = FALSE
    /\ selected' = "None"
    /\ UNCHANGED ret
    /\ ScoredStep

\* ---- the practice exam's question screen (render_practice_exam) ----

OnPracticeQuestion == mode = "practice_exam" /\ ~show_review /\ ~show_results

\* the option letters of the question shown
OptionLetters(exam, idx) ==
    IF idx + 1 \in 1..Len(exam)
    THEN {exam[idx + 1].options[k].letter : k \in 1..Len(exam[idx + 1].options)}
    ELSE {}

\* mutant of PracticeWidgetsRendered: the handlers run whatever the time left
PracticeWidgetsRendered_Untimed ==
    /\ OnPracticeQuestion
    /\ Len(exam_questions) > 0
    /\ current_question_index < Len(exam_questions)

\* the render reaches the widgets: the time has not expired (line 281), and the
\* progress bar and the question lookup (lines 303, 307) did not raise
PracticeWidgetsRendered ==
    /\ OnPracticeQuestion
    /\ ~Expired(get_remaining_time(exam_end_time))
    /\ Len(exam_questions) > 0
    /\ current_question_index < Len(exam_questions)

\* lines 281-284: the render finds the time expired
TimerExpiry ==
    /\ OnPracticeQuestion
    /\ Expired(get_remaining_time(exam_end_time))
    /\ show_results' = TRUE
    /\ selected' = "None"
    /\ UNCHANGED <<questions, mode, exam_questions, current_question_index,
                   user_answers, exam_end_time, show_review, study_domain,
                   study_num_questions, show_feedback, current_answer_correct,
                   file_uploaded, show_exit_confirm, uploaded_file, ret>>
    /\ ScoredStep

\* the user picks an option of the radio
PracticeSelect ==
    /\ PracticeWidgetsRendered
    /\ \E l \in OptionLetters(exam_questions, current_question_index) :
           /\ l # selected
           /\ selected' = l
    /\ UNCHANGED <<questions, mode, exam_questions, current_question_index,
                   user_answers, exam_end_time, show_results, show_review,
                   study_domain, study_num_questions, show_feedback,
                   current_answer_correct, file_uploaded, show_exit_confirm,
                   uploaded_file, ret>>
    /\ ScoredStep

\* mutant of RecordAnswer: the answer is stored one position too far
RecordAnswer_Next(answers, idx, letter) == ((idx + 1) :> letter) @@ answers

\* st.session_state.user_answers[current_idx] = selected_letter
RecordAnswer(answers, idx, letter) == (idx :> letter) @@ answers

\* mutant of HasSelection: an empty selection counts as one
HasSelection_Always(selected_letter) == TRUE

\* `if selected_letter:` of lines 341, 361, 369, and the negation of
\* submit_disabled of lines 347 and 634
HasSelection(selected_letter) == selected_letter # "None"

\* the answer map after the navigation buttons' conditional store
AnswersAfterLeave(answers, idx, selected_letter) ==
    IF HasSelection(selected_letter)
    THEN RecordAnswer(answers, idx, selected_letter)
    ELSE answers

\* line 339
HasPrevious(idx) == idx > 0

\* mutant of HasNext: the last position still offers Next
HasNext_OffByOne(idx, total) == idx < total

\* line 359
HasNext(idx, total) == idx < total - 1

\* the Previous button, lines 340-344
PracticePrevious ==
    /\ PracticeWidgetsRendered
    /\ HasPrevious(current_question_index)
    /\ user_answers' = AnswersAfterLeave(user_answers, current_question_index, selected)
    /\ current_question_index' = current_question_index - 1
    /\ selected' = DefaultSelection(exam_questions, user_answers',
                                    current_question_index')
    /\ UNCHANGED <<questions, mode, exam_questions, exam_end_time, show_results,
                   show_review, study_domain, study_num_questions, show_feedback,
                   current_answer_correct, file_uploaded, show_exit_confirm,
                   uploaded_file, ret>>
    /\ ScoredStep

\* the Submit Answer button, lines 347-356
PracticeSubmit ==
    /\ PracticeWidgetsRendered
    /\ HasSelection(selected)
    /\ user_answers' = RecordAnswer(user_answers, current_question_index, selected)
    /\ IF current_question_index = Len(exam_questions) - 1
       THEN /\ show_results' = TRUE
            /\ current_question_index' = current_question_index
            /\ selected' = "None"
       ELSE /\ show_results' = show_results
            /\ current_question_index' = current_question_index + 1
            /\ selected' = DefaultSelection(exam_questions, user_answers',
                                            current_question_index')
    /\ UNCHANGED <<questions, mode, exam_questions, exam_end_time, show_review,
                   study_domain, study_num_questions, show_feedback,
                   current_answer_correct, file_uploaded, show_exit_confirm,
                   uploaded_file, ret>>
    /\ ScoredStep

\* the Next button, lines 359-364
PracticeNext ==
    /\ PracticeWidgetsRendered
    /\ HasNext(current_question_index, Len(exam_questions))
    /\ user_answers' = AnswersAfterLeave(user_answers, current_question_index, selected)
    /\ current_question_index' = current_question_index + 1
    /\ selected' = DefaultSelection(exam_questions, user_answers',
                                    current_question_index')
    /\ UNCHANGED <<questions, mode, exam_questions, exam_end_time, show_results,
                   show_review, study_domain, study_num_questions, show_feedback,
                   current_answer_correct, file_uploaded, show_exit_confirm,
                   uploaded_file, ret>>
    /\ ScoredStep

\* the Finish Exam button, lines 368-372
PracticeFinish ==
    /\ PracticeWidgetsRendered
    /\ user_answers' = AnswersAfterLeave(user_answers, current_question_index, selected)
    /\ show_results' = TRUE
    /\ selected' = "None"
    /\ UNCHANGED <<questions, mode, exam_questions, current_question_index,
                   exam_end_time, show_review, study_domain, study_num_questions,
                   show_feedback, current_answer_correct, file_uploaded,
                   show_exit_confirm, uploaded_file, ret>>
    /\ ScoredStep

\* ---- results and review (render_results, render_study_results, render_review) ----

OnPracticeResults == mode = "practice_exam" /\ ~show_review /\ show_results

OnStudyResults == mode = "study" /\ ~show_review /\ show_results

OnReview == mode \in {"practice_exam", "study"} /\ show_review

\* Review Answers on either results screen, lines 411-413 and 699-701
ReviewAnswers ==
    /\ OnPracticeResults \/ OnStudyResults
    /\ show_review' = TRUE
    /\ UNCHANGED <<questions, mode, exam_questions, current_question_index,
                   user_answers, exam_end_time, show_results, study_domain,
                   study_num_questions, show_feedback, current_answer_correct,
                   file_uploaded, show_exit_confirm, uploaded_file, selected, ret>>
    /\ ScoredStep

\* mutant of ReturnToMainMenu: the answer map is emptied on the way out
ReturnToMainMenu_AnswersCleared ==
    /\ OnPracticeResults \/ OnReview
    /\ mode' = "main"
    /\ show_results' = FALSE
    /\ show_review' = FALSE
    /\ user_answers' = <<>>
    /\ UNCHANGED <<questions, exam_questions, current_question_index,
                   exam_end_time, study_domain, study_num_questions,
                   show_feedback, current_answer_correct, file_uploaded,
                   show_exit_confirm, uploaded_file, selected, ret>>
    /\ ScoredStep

\* Return to Main Menu on the practice results and on the review, lines 416-420
\* and 474-478
ReturnToMainMenu ==
    /\ OnPracticeResults \/ OnReview
    /\ mode' = "main"
    /\ show_results' = FALSE
    /\ show_review' = FALSE
    /\ UNCHANGED <<questions, exam_questions, current_question_index,
                   user_answers, exam_end_time, study_domain, study_num_questions,
                   show_feedback, current_answer_correct, file_uploaded,
                   show_exit_confirm, uploaded_file, selected, ret>>
    /\ ScoredStep

\* mutant of StudyResultsReturn: the two screen flags are left as they are
StudyResultsReturn_FlagsKept ==
    /\ OnStudyResults
    /\ mode' = "main"
    /\ show_feedback' = FALSE
    /\ UNCHANGED <<questions, exam_questions, current_question_index,
                   user_answers, exam_end_time, show_results, show_review,
                   study_domain, study_num_questions, current_answer_correct,
                   file_uploaded, show_exit_confirm, uploaded_file, selected, ret>>
    /\ ScoredStep

\* Return to Main Menu on the study results, lines 704-709
StudyResultsReturn ==
    /\ OnStudyResults
    /\ mode' = "main"
    /\ show_results' = FALSE
    /\ show_review' = FALSE
    /\ show_feedback' = FALSE
    /\ UNCHANGED <<questions, exam_questions, current_question_index,
                   user_answers, exam_end_time, study_domain, study_num_questions,
                   current_answer_correct, file_uploaded, show_exit_confirm,
                   uploaded_file, selected, ret>>
    /\ ScoredStep

\* ---- the study setup (render_study_setup) ----

OnStudySetup == mode = "study_setup"

\* the user picks another domain in the select box
SetupSelectDomain ==
    /\ OnStudySetup
    /\ \E d \in SetupDomainChoices :
           /\ d # study_domain
           /\ study_domain' = d
           /\ study_num_questions' = SetupRender(questions, d, study_num_questions)
    /\ UNCHANGED <<questions, mode, exam_questions, current_question_index,
                   user_answers, exam_end_time, show_results, show_review,
                   show_feedback, current_answer_correct, file_uploaded,
                   show_exit_confirm, uploaded_file, selected, ret>>
    /\ ScoredStep

\* the user enters a number of the input's range min_value..max_value
SetupSetNumber ==
    /\ OnStudySetup
    /\ LET max_questions == Len(get_questions_by_domain(questions, study_domain))
       IN  \E v \in 1..max_questions :
               /\ v # study_num_questions
               /\ study_num_questions' = v
    /\ UNCHANGED <<questions, mode, exam_questions, current_question_index,
                   user_answers, exam_end_time, show_results, show_review,
                   study_domain, show_feedback, current_answer_correct,
                   file_uploaded, show_exit_confirm, uploaded_file, selected, ret>>
    /\ ScoredStep

\* the All Questions button, lines 525-527
SetupAllQuestions ==
    /\ OnStudySetup
    /\ LET max_questions == Len(get_questions_by_domain(questions, study_domain))
       IN  /\ max_questions > 0
           /\ study_num_questions' = max_questions
    /\ UNCHANGED <<questions, mode, exam_questions, current_question_index,
                   user_answers, exam_end_time, show_results, show_review,
                   study_domain, show_feedback, current_answer_correct,
                   file_uploaded, show_exit_confirm, uploaded_file, selected, ret>>
    /\ ScoredStep

\* the Start Study Session button, lines 535-545, after lines 494-520 of the
\* same run; a draw that raises leaves the session where line 520 put it
StartStudySession ==
    /\ OnStudySetup
    /\ LET domain_questions == get_questions_by_domain(questions, study_domain)
           max_questions == Len(domain_questions)
           num_questions == SetupRender(questions, study_domain, study_num_questions)
       IN  /\ max_questions > 0
           /\ study_num_questions' = num_questions
           /\ \E r \in random_sample(domain_questions, num_questions) :
                  IF r.raised
                  THEN UNCHANGED <<exam_questions, current_question_index,
                                   user_answers, show_feedback,
                                   current_answer_correct, show_exit_confirm, mode>>
                  ELSE /\ exam_questions' = r.value
                       /\ current_question_index' = 0
                       /\ user_answers' = <<>>
                       /\ show_feedback' = FALSE
                       /\ current_answer_correct' = "None"
                       /\ show_exit_confirm' = FALSE
                       /\ mode' = "study"
    /\ selected' = "None"
    /\ UNCHANGED <<questions, exam_end_time, show_results, show_review,
                   study_domain, file_uploaded, uploaded_file, ret>>
    /\ ScoredStep

\* Return to Main Menu on the setup, lines 503-505 and 548-550
SetupReturn ==
    /\ OnStudySetup
    /\ study_num_questions' = SetupRender(questions, study_domain, study_num_questions)
    /\ mode' = "main"
    /\ UNCHANGED <<questions, exam_questions, current_question_index,
                   user_answers, exam_end_time, show_results, show_review,
                   study_domain, show_feedback, current_answer_correct,
                   file_uploaded, show_exit_confirm, uploaded_file, selected, ret>>
    /\ ScoredStep

\* ---- the study session's question screen (render_study_mode) ----

OnStudyQuestion == mode = "study" /\ ~show_review /\ ~show_results

\* the progress bar and the question lookup (lines 561, 565) did not raise
StudyWidgetsRendered ==
    /\ OnStudyQuestion
    /\ Len(exam_questions) > 0
    /\ current_question_index < Len(exam_questions)

\* the user picks an option of the radio
StudySelect ==
    /\ StudyWidgetsRendered
    /\ ~show_feedback
    /\ \E l \in OptionLetters(exam_questions, current_question_index) :
           /\ l # selected
           /\ selected' = l
    /\ UNCHANGED <<questions, mode, exam_questions, current_question_index,
                   user_answers, exam_end_time, show_results, show_review,
                   study_domain, study_num_questions, show_feedback,
                   current_answer_correct, file_uploaded, show_exit_confirm,
                   uploaded_file, ret>>
    /\ ScoredStep

\* lines 638-639: the feedback flag for the letter submitted
StudyVerdict(question, selected_letter) ==
    LET c == correct_option(question.options)
    IN  IF c # 0 /\ selected_letter = question.options[c].letter
        THEN "True" ELSE "False"

\* the Submit Answer button of the study screen, lines 634-643
StudySubmit ==
    /\ StudyWidgetsRendered
    /\ ~show_feedback
    /\ HasSelection(selected)
    /\ user_answers' = RecordAnswer(user_answers, current_question_index, selected)
    /\ current_answer_correct' =
           StudyVerdict(exam_questions[current_question_index + 1], selected)
    /\ show_feedback' = TRUE
    /\ selected' = "None"
    /\ UNCHANGED <<questions, mode, exam_questions, current_question_index,
                   exam_end_time, show_results, show_review, study_domain,
                   study_num_questions, file_uploaded, show_exit_confirm,
                   uploaded_file, ret>>
    /\ ScoredStep

\* mutant of StudyNextQuestion: the button is offered before the answer is in
StudyNextQuestion_Unanswered ==
    /\ StudyWidgetsRendered
    /\ HasNext(current_question_index, Len(exam_questions))
    /\ current_question_index' = current_question_index + 1
    /\ show_feedback' = FALSE
    /\ current_answer_correct' = "None"
    /\ UNCHANGED <<questions, mode, exam_questions, user_answers, exam_end_time,
                   show_results, show_review, study_domain, study_num_questions,
                   file_uploaded, show_exit_confirm, uploaded_file, selected, ret>>
    /\ ScoredStep

\* the Next Question button, lines 611-616
StudyNextQuestion ==
    /\ StudyWidgetsRendered
    /\ show_feedback
    /\ HasNext(current_question_index, Len(exam_questions))
    /\ current_question_index' = current_question_index + 1
    /\ show_feedback' = FALSE
    /\ current_answer_correct' = "None"
    /\ UNCHANGED <<questions, mode, exam_questions, user_answers, exam_end_time,
                   show_results, show_review, study_domain, study_num_questions,
                   file_uploaded, show_exit_confirm, uploaded_file, selected, ret>>
    /\ ScoredStep

\* the View Results button, lines 617-620
StudyViewResults ==
    /\ StudyWidgetsRendered
    /\ show_feedback
    /\ ~HasNext(current_question_index, Len(exam_questions))
    /\ show_results' = TRUE
    /\ UNCHANGED <<questions, mode, exam_questions, current_question_index,
                   user_answers, exam_end_time, show_review, study_domain,
                   study_num_questions, show_feedback, current_answer_correct,
                   file_uploaded, show_exit_confirm, uploaded_file, selected, ret>>
    /\ ScoredStep

\* Return to Main Menu on the study screen asks for confirmation, lines 648-651
StudyReturnToMenu ==
    /\ StudyWidgetsRendered
    /\ ~show_exit_confirm
    /\ show_exit_confirm' = TRUE
    /\ UNCHANGED <<questions, mode, exam_questions, current_question_index,
                   user_answers, exam_end_time, show_results, show_review,
                   study_domain, study_num_questions, show_feedback,
                   current_answer_correct, file_uploaded, uploaded_file,
                   selected, ret>>
    /\ ScoredStep

\* Yes, Exit, lines 656-660
StudyConfirmExit ==
    /\ StudyWidgetsRendered
    /\ show_exit_confirm
    /\ mode' = "main"
    /\ show_feedback' = FALSE
    /\ show_exit_confirm' = FALSE
    /\ selected' = "None"
    /\ UNCHANGED <<questions, exam_questions, current_question_index,
                   user_answers, exam_end_time, show_results, show_review,
                   study_domain, study_num_questions, current_answer_correct,
                   file_uploaded, uploaded_file, ret>>
    /\ ScoredStep

\* No, Continue, lines 662-664
StudyCancelExit ==
    /\ StudyWidgetsRendered
    /\ show_exit_confirm
    /\ show_exit_confirm' = FALSE
    /\ UNCHANGED <<questions, mode, exam_questions, current_question_index,
                   user_answers, exam_end_time, show_results, show_review,
                   study_domain, study_num_questions, show_feedback,
                   current_answer_correct, file_uploaded, uploaded_file,
                   selected, ret>>
    /\ ScoredStep

Next ==
    \/ Tick
    \/ UploadFile
    \/ RemoveFile
    \/ start_practice_exam
    \/ ClickStudyMode
    \/ ClickExit
    \/ TimerExpiry
    \/ PracticeSelect
    \/ PracticePrevious
    \/ PracticeSubmit
    \/ PracticeNext
    \/ PracticeFinish
    \/ ReviewAnswers
    \/ ReturnToMainMenu
    \/ StudyResultsReturn
    \/ SetupSelectDomain
    \/ SetupSetNumber
    \/ SetupAllQuestions
    \/ StartStudySession
    \/ SetupReturn
    \/ StudySelect
    \/ StudySubmit
    \/ StudyNextQuestion
    \/ StudyViewResults
    \/ StudyReturnToMenu
    \/ StudyConfirmExit
    \/ StudyCancelExit

Spec == Init /\ [][Next]_vars

\* The clock keeps advancing, and the question screen, which reruns itself at
\* the end of every render (line 375), is rendered again after the deadline.
SpecLive == Spec /\ WF_vars(Tick) /\ WF_vars(TimerExpiry)

(***************************************************************************)
(* The assembler as a function: corpora drawn from bounded families        *)
(***************************************************************************)
\* the groups of a corpus: the five domains, and the domain numbers 0 and 6
\* that name no domain of the quota table
Groups == 0..6

Quota(d) == IF d \in Domains THEN EXAM_DISTRIBUTION[d] ELSE 0

MaxQuota == Max(Quota(1), Max(Quota(2), Max(Quota(3), Max(Quota(4), Quota(5)))))

DefaultOptions == <<Opt("A", TRUE)>>

RECURSIVE GroupOf(_, _, _)
\* the group of the i-th question of the corpus with cnt[d] questions in group d
GroupOf(cnt, i, d) == IF i <= cnt[d] THEN d ELSE GroupOf(cnt, i - cnt[d], d + 1)

\* the corpus with cnt[d] questions of domain number d, ids 1, 2, ...
CorpusOf(cnt) ==
    [i \in 1..SumTo(cnt, 6) |-> MkQuestion(i, GroupOf(cnt, i, 0), DefaultOptions)]

\* every quota met exactly, but for at most MaxDelta unit deviations
NearQuotaCounts ==
    {[d \in Groups |-> Quota(d) + dev[d]] :
        dev \in {v \in [Groups -> (0 - MaxDelta)..MaxDelta] :
                    /\ v[0] >= 0
                    /\ v[6] >= 0
                    /\ SumTo([d \in Groups |-> Abs(v[d])], 6) <= MaxDelta}}

\* at most MaxSmall questions in all
SmallCounts == {c \in [Groups -> 0..MaxSmall] : SumTo(c, 6) <= MaxSmall}

\* one group holding about as many questions as the largest quota, the rest empty
LoneCounts ==
    {[d \in Groups |-> IF d = g THEN n ELSE 0] :
        g \in Groups, n \in (MaxQuota - 3)..(MaxQuota + 1)}

\* the corpora select_exam_questions is called on, by their counts
AssembleCounts == NearQuotaCounts \cup SmallCounts \cup LoneCounts

InitAssemble ==
    /\ SessionDefaults
    /\ exam_questions = <<>>
    /\ user_answers = <<>>
    /\ uploaded_file = NoFile
    /\ selected = "None"
    /\ ret = NotCalled
    /\ \E c \in AssembleCounts : questions = CorpusOf(c)

\* select_exam_questions(st.session_state.questions), any outcome of the draws
CallSelect ==
    /\ ret = NotCalled
    /\ \E r \in select_exam_questions(questions) :
           ret' = [fn |-> "select_exam_questions", raised |-> r.raised, value |-> r.value]
    /\ UNCHANGED <<questions, mode, exam_questions, current_question_index,
                   user_answers, exam_end_time, show_results, show_review,
                   study_domain, study_num_questions, show_feedback,
                   current_answer_correct, file_uploaded, show_exit_confirm,
                   uploaded_file, selected>>
    /\ UNCHANGED scored

NextAssemble == CallSelect

SpecAssemble == InitAssemble /\ [][NextAssemble]_vars

(***************************************************************************)
(* Claims on the assembler (SpecAssemble)                                  *)
(***************************************************************************)
SelectReturned == ret.fn = "select_exam_questions" /\ ~ret.raised

\* number of entries of s with domainNumber d
CountDomain(s, d) == Cardinality({i \in 1..Len(s) : s[i].domainNumber = d})

PoolSize(qs, d) == CountDomain(qs, d)

Deficit(qs, d) == Max(0, EXAM_DISTRIBUTION[d] - PoolSize(qs, d))

EveryQuotaMet(qs) == \A d \in Domains : PoolSize(qs, d) >= EXAM_DISTRIBUTION[d]

QuotaSum == SumTo([d \in 0..5 |-> Quota(d)], 5)

NoDuplicates(s) == Cardinality(Range(s)) = Len(s)

\* C1 (stratified assembly): on a corpus with at least the quota of questions in
\* every domain, whatever the draws, select_exam_questions returns; the result
\* holds exactly EXAM_DISTRIBUTION[d] questions of each domain d, its length is
\* the sum of the quotas, which is TOTAL_EXAM_QUESTIONS = 152, every entry is a
\* corpus question, and no corpus question occurs twice.
C1_StratifiedAssembly ==
    (ret.fn = "select_exam_questions" /\ EveryQuotaMet(questions)) =>
        /\ ~ret.raised
        /\ \A d \in Domains : CountDomain(ret.value, d) = EXAM_DISTRIBUTION[d]
        /\ Len(ret.value) = QuotaSum
        /\ QuotaSum = TOTAL_EXAM_QUESTIONS
        /\ Range(ret.value) \subseteq Range(questions)
        /\ NoDuplicates(ret.value)

\* C1 witness: an exam assembled from a corpus that meets every quota and has a
\* spare question in some domain, so that the draw had a choice
C1_Witness ==
    /\ SelectReturned
    /\ EveryQuotaMet(questions)
    /\ \E d \in Domains : PoolSize(questions, d) > EXAM_DISTRIBUTION[d]
    /\ Len(ret.value) = TOTAL_EXAM_QUESTIONS

\* Deficit of every domain, as a function
Deficits(qs) == [d \in Domains |-> Deficit(qs, d)]

SomeDeficit(qs) == \E d \in Domains : Deficit(qs, d) > 0

\* every deficient domain finds its deficit among the questions outside it
DeficitsCovered(qs) ==
    \A d \in Domains :
        Deficit(qs, d) > 0 => Len(qs) - PoolSize(qs, d) >= Deficit(qs, d)

\* C2 (shortfall): when some domain has fewer questions than its quota and every
\* deficient domain finds its deficit among the questions outside it, the result
\* has the full nominal length 152, and no domain d has more entries than
\* EXAM_DISTRIBUTION[d] plus the deficits of the other domains.
C2_Shortfall ==
    (ret.fn = "select_exam_questions" /\ SomeDeficit(questions)
        /\ DeficitsCovered(questions)) =>
        LET deficit == Deficits(questions)
            all == deficit[1] + deficit[2] + deficit[3] + deficit[4] + deficit[5]
        IN  /\ ~ret.raised
            /\ Len(ret.value) = TOTAL_EXAM_QUESTIONS
            /\ \A d \in Domains :
                   CountDomain(ret.value, d)
                       <= EXAM_DISTRIBUTION[d] + (all - deficit[d])

\* C2 witness: a covered shortfall after which some domain holds more entries
\* than its quota: the extras were drawn from it
C2_Witness ==
    /\ SelectReturned
    /\ SomeDeficit(questions)
    /\ DeficitsCovered(questions)
    /\ \E d \in Domains : CountDomain(ret.value, d) > EXAM_DISTRIBUTION[d]

NominalLength(qs) == SumTo([d \in 0..5 |-> Min(Quota(d), Len(qs))], 5)

\* C3 (insufficient pools are no failure): on every corpus select_exam_questions
\* returns; the result has min(EXAM_DISTRIBUTION[d], |corpus|) entries for each
\* of the five domains, summed; it is never longer than 152, and shorter than
\* 152 only when the corpus has fewer than 32 questions.
C3_NeverFails ==
    ret.fn = "select_exam_questions" =>
        /\ ~ret.raised
        /\ Len(ret.value) = NominalLength(questions)
        /\ Len(ret.value) <= TOTAL_EXAM_QUESTIONS
        /\ Len(ret.value) < TOTAL_EXAM_QUESTIONS => Len(questions) < MaxQuota
        /\ MaxQuota = 32

\* C3 witness: a non-empty corpus none of whose questions is of a domain 1..5,
\* assembled into an exam shorter than the nominal 152
C3_Witness ==
    /\ SelectReturned
    /\ questions # <<>>
    /\ \A d \in Domains : PoolSize(questions, d) = 0
    /\ Len(ret.value) < TOTAL_EXAM_QUESTIONS
    /\ Len(ret.value) > 0

(***************************************************************************)
(* The scorer as a function: exam sets and answer maps from bounded sets   *)
(***************************************************************************)
\* one correct option; none; two correct options; a single, wrong option
ScoreKinds ==
    {<<Opt("A", TRUE), Opt("B", FALSE)>>,
     <<Opt("A", FALSE), Opt("B", FALSE)>>,
     <<Opt("A", FALSE), Opt("B", TRUE), Opt("C", TRUE)>>}

AnswerLetters == {"A", "B", "C"}

ExamOfKinds(kinds) == [i \in 1..Len(kinds) |-> MkQuestion(i, 1, kinds[i])]

\* every exam set of at most MaxExhaustive questions, with every answer map on
\* its positions and on the key one past them
ExhaustiveInput ==
    \E n \in 0..MaxExhaustive :
        \E kinds \in [1..n -> ScoreKinds] :
            \E S \in SUBSET (0..n) :
                \E f \in [S -> AnswerLetters] :
                    /\ exam_questions = ExamOfKinds(kinds)
                    /\ user_answers = f

\* exam sets of up to MaxPatterned questions with one correct option, A, each:
\* the first c positions answered A, the next w answered B, the rest unanswered
PatternedInput ==
    \E n \in 1..MaxPatterned :
        \E c \in 0..n :
            \E w \in 0..(n - c) :
                /\ exam_questions =
                       ExamOfKinds([i \in 1..n |-> <<Opt("A", TRUE), Opt("B", FALSE)>>])
                /\ user_answers = [i \in 0..(c + w - 1) |-> IF i < c THEN "A" ELSE "B"]

InitScore ==
    /\ SessionDefaults
    /\ questions = <<>>
    /\ uploaded_file = NoFile
    /\ selected = "None"
    /\ ret = NotCalled
    /\ ExhaustiveInput \/ PatternedInput

\* calculate_score(st.session_state.exam_questions, st.session_state.user_answers)
CallScore ==
    /\ ret = NotCalled
    /\ ret' = [fn |-> "calculate_score"] @@ calculate_score(exam_questions, user_answers)
    /\ UNCHANGED <<questions, mode, exam_questions, current_question_index,
                   user_answers, exam_end_time, show_results, show_review,
                   study_domain, study_num_questions, show_feedback,
                   current_answer_correct, file_uploaded, show_exit_confirm,
                   uploaded_file, selected>>
    /\ UNCHANGED scored

NextScore == CallScore

SpecScore == InitScore /\ [][NextScore]_vars

(***************************************************************************)
(* Claims on the scorer (SpecScore)                                        *)
(***************************************************************************)
Scored == ret.fn = "calculate_score"

Positions(exam) == 0..(Len(exam) - 1)

Answered(exam, answers) == Positions(exam) \cap DOMAIN answers

\* every question of the exam set has exactly one option marked correct
UniqueCorrect(exam) ==
    \A n \in 1..Len(exam) :
        Cardinality({k \in 1..Len(exam[n].options) : exam[n].options[k].isCorrect}) = 1

\* the positions whose recorded answer is the letter of an option marked correct
Matching(exam, answers) ==
    {i \in Answered(exam, answers) :
        \E k \in 1..Len(exam[i + 1].options) :
            /\ exam[i + 1].options[k].isCorrect
            /\ exam[i + 1].options[k].letter = answers[i]}

\* C4 (scoring formula and pass boundary): total is the length of the exam set;
\* percentage is correct / total * 100 when total > 0 and 0 when total = 0;
\* passed holds iff total > 0 and 100 * correct >= 80 * total.  The empty exam
\* with the empty answer map gives 0, 0, 0, not passed; of 10 questions with one
\* correct option each, 8 matching answers pass and 7 do not.
C4_ScoringFormula ==
    Scored =>
        /\ ret.total = Len(exam_questions)
        /\ ret.total > 0 =>
               ret.percentage.num * ret.total = ret.correct * 100 * ret.percentage.den
        /\ ret.total = 0 => ret.percentage.num = 0
        /\ ret.percentage.den > 0
        /\ ret.passed <=> (ret.total > 0 /\ 100 * ret.correct >= 80 * ret.total)
        /\ (exam_questions = <<>> /\ user_answers = <<>>) =>
               (ret.correct = 0 /\ ret.total = 0 /\ ret.percentage.num = 0 /\ ~ret.passed)
        /\ UniqueCorrect(exam_questions) =>
               ret.correct = Cardinality(Matching(exam_questions, user_answers))
        /\ (UniqueCorrect(exam_questions) /\ Len(exam_questions) = 10
               /\ Cardinality(Matching(exam_questions, user_answers)) = 8) => ret.passed
        /\ (UniqueCorrect(exam_questions) /\ Len(exam_questions) = 10
               /\ Cardinality(Matching(exam_questions, user_answers)) = 7) => ~ret.passed

\* C4 witness: 8 matching answers of 10, scored as passed at exactly 80 percent
C4_Witness ==
    /\ Scored
    /\ Len(exam_questions) = 10
    /\ Cardinality(Matching(exam_questions, user_answers)) = 8
    /\ ret.correct = 8
    /\ ret.passed

\* the exam set with the question at position i replaced by q
WithQuestion(exam, i, q) == [exam EXCEPT ![i + 1] = q]

\* C5 (unanswered never correct): a position with no entry in the answer map
\* adds nothing to correct, whatever question stands there, so correct is at
\* most the number of answered positions and at most total.
C5_UnansweredNeverCorrect ==
    Scored =>
        /\ ret.correct <= Cardinality(Answered(exam_questions, user_answers))
        /\ ret.correct <= ret.total
        /\ \A i \in Positions(exam_questions) \ DOMAIN user_answers :
               \A k \in ScoreKinds :
                   calculate_score(
                       WithQuestion(exam_questions, i, MkQuestion(i + 1, 1, k)),
                       user_answers).correct = ret.correct

\* C5 witness: a scored exam with a credited position and an unanswered position
\* whose question has a correct option
C5_Witness ==
    /\ Scored
    /\ ret.correct >= 1
    /\ \E i \in Positions(exam_questions) \ DOMAIN user_answers :
           correct_option(exam_questions[i + 1].options) # 0

\* the answer map without its entry at position i
WithoutAnswer(answers, i) == [j \in DOMAIN answers \ {i} |-> answers[j]]

NoCorrectOption(q) == \A k \in 1..Len(q.options) : ~q.options[k].isCorrect

\* C6 (missing correct option degrades silently): calculate_score never raises,
\* and an answered position whose question has no option marked correct adds
\* nothing to correct, whatever letter was recorded there.
C6_MissingCorrectOption ==
    Scored =>
        /\ ~ret.raised
        /\ \A i \in Answered(exam_questions, user_answers) :
               NoCorrectOption(exam_questions[i + 1]) =>
                   /\ PositionScore(exam_questions[i + 1],
                                    AnswerAt(user_answers, i)).credit = 0
                   /\ calculate_score(exam_questions,
                                      WithoutAnswer(user_answers, i)).correct = ret.correct

\* C6 witness: an answer recorded on a question with no correct option, beside
\* a credited answer on another position
C6_Witness ==
    /\ Scored
    /\ ret.correct >= 1
    /\ \E i \in Answered(exam_questions, user_answers) :
           NoCorrectOption(exam_questions[i + 1])

(***************************************************************************)
(* Claims C7-C10: the session machine                                      *)
(***************************************************************************)
SessionActive == mode \in {"practice_exam", "study"}

ValidPositions == 0..(Len(exam_questions) - 1)

\* the steps C7 is about
AnswerStep ==
    \/ PracticePrevious
    \/ PracticeNext
    \/ PracticeSubmit
    \/ PracticeFinish
    \/ StudySubmit

\* the two answer maps agree at every key but i: same keys, same letters
SameAwayFrom(before, after, i) ==
    \A k \in (DOMAIN before \cup DOMAIN after) \ {i} :
        /\ k \in DOMAIN before
        /\ k \in DOMAIN after
        /\ after[k] = before[k]

\* C7 (navigation frame condition): a Previous, Next, Submit Answer or Finish
\* Exam step of a practice exam, and a Submit Answer step of a study session,
\* taken at position i leaves the answer map as it was at every key other than
\* i, and leaves the exam question sequence unchanged.
C7_NavigationFrame ==
    [][AnswerStep =>
          /\ SameAwayFrom(user_answers, user_answers', current_question_index)
          /\ exam_questions' = exam_questions]_vars

\* an answer recorded at position 1 has survived the navigation back to
\* position 0 and the recording of an answer there
C7_Witness ==
    /\ mode = "practice_exam"
    /\ ~show_results
    /\ current_question_index = 1
    /\ DOMAIN user_answers = {0, 1}
    /\ user_answers[0] # user_answers[1]

\* C8 (answer-map and cursor range): while a session is active, every key of
\* user_answers and the value of current_question_index lie in
\* 0..len(exam_questions)-1.
C8_RangeInvariant ==
    SessionActive =>
        /\ DOMAIN user_answers \subseteq ValidPositions
        /\ current_question_index \in ValidPositions

\* a study session at its last position with every position answered
C8_Witness ==
    /\ mode = "study"
    /\ Len(exam_questions) > 1
    /\ current_question_index = Len(exam_questions) - 1
    /\ DOMAIN user_answers = ValidPositions

\* every value of the answer map is the letter of an option of its question
AnswersAreOptionLetters ==
    \A i \in DOMAIN user_answers :
        user_answers[i] \in OptionLetters(exam_questions, i)

\* C9 (no empty answers reach the answer map): every value stored in
\* user_answers at position i is the letter of an option of exam_questions[i];
\* Submit Answer is taken only with an option selected; Previous, Next and
\* Finish Exam taken with no selection leave user_answers unchanged.
C9_NoEmptyAnswers ==
    /\ []AnswersAreOptionLetters
    /\ [][(PracticeSubmit \/ StudySubmit) => selected # "None"]_vars
    /\ [][((PracticePrevious \/ PracticeNext \/ PracticeFinish) /\ selected = "None")
             => user_answers' = user_answers]_vars

\* the exam was finished from position 1 with no selection there, after an
\* answer to position 0: the map holds that answer alone
C9_Witness ==
    /\ mode = "practice_exam"
    /\ show_results
    /\ current_question_index = 1
    /\ DOMAIN user_answers = {0}
    /\ user_answers[0] \in OptionLetters(exam_questions, 0)

\* a script run of the practice exam's question screen: any step but the clock's
PracticeRender == OnPracticeQuestion /\ ~Tick

\* C10 (forced transition at expiry): a render of the practice exam's question
\* screen at which the remaining time is 0 sets show_results, whatever the
\* answer map holds; and, the clock advancing and the screen being rendered
\* again and again, every practice exam on its question screen eventually
\* reaches the results screen.
C10_ForcedExpiry ==
    /\ [][(PracticeRender /\ get_remaining_time(exam_end_time) = 0)
             => show_results']_vars
    /\ (OnPracticeQuestion ~> OnPracticeResults)

\* the results screen was forced by the timer with no position answered
C10_Witness ==
    /\ OnPracticeResults
    /\ exam_end_time.set
    /\ get_remaining_time(exam_end_time) = 0
    /\ user_answers = <<>>
    /\ Len(exam_questions) > 0

(***************************************************************************)
(* parse_questions                                                         *)
(*                                                                         *)
(* A text is the sequence of its lines, each line ended by a newline.  The *)
(* lines explored are the ones below; what the regular expressions of      *)
(* parse_questions, int(), str.strip and str.replace make of each of them  *)
(* is tabulated line by line.                                              *)
(***************************************************************************)
\* a record marker whose number has more digits than int() converts
\* (ValueError past the interpreter's limit on integer strings)
HugeDigits == "9...9 (5000 digits)"

HugeMarker == "----Question 9...9 (5000 digits)"

MarkerLines == {"----Question 1", "----Question 2", HugeMarker}

DomainLines ==
    {"Domain: Domain 2: X", "Domain: Domain 9: X", "Domain: Governance", "Domain:"}

QuestionLines == {"Question text: What is X?", "Question text:"}

OptionLines == {"A. foo", "B. bar [CORRECT]", "C. baz"}

\* lines that start no field: a marker without a number, an option letter
\* outside A-D, free text, an empty line
OtherLines == {"----Question x", "E. qux [CORRECT]", "zzz", ""}

BodyLines ==
    DomainLines \cup QuestionLines \cup {"Options:"} \cup OptionLines
        \cup {"Excerpt from source: src"} \cup OtherLines

\* line 42: the line matches ----Question\s+(\d+)
IsMarker(line) == line \in MarkerLines

\* line 42: the group (\d+) of the marker
MarkerDigits(line) ==
    CASE line = "----Question 1" -> "1"
      [] line = "----Question 2" -> "2"
      [] OTHER -> HugeDigits

\* line 48: int() raises ValueError on these digits
IntRaises(digits) == digits = HugeDigits

\* line 48: int() of the digits it converts
IntOf(digits) == IF digits = "1" THEN 1 ELSE 2

\* \s matches nothing else but the line's newline
IsBlank(line) == line = ""

\* line 52: the line holds the label Domain:
HasDomainLabel(line) == line \in DomainLines

\* line 52: what follows the label and its whitespace on the line
AfterDomainLabel(line) ==
    CASE line = "Domain: Domain 2: X" -> "Domain 2: X"
      [] line = "Domain: Domain 9: X" -> "Domain 9: X"
      [] line = "Domain: Governance" -> "Governance"
      [] OTHER -> ""

\* line 60: the group of Domain\s*(\d+) searched in a string, "" for no match
DomainDigits(text) ==
    CASE text \in {"Domain 2: X", "Domain: Domain 2: X"} -> "2"
      [] text \in {"Domain 9: X", "Domain: Domain 9: X"} -> "9"
      [] OTHER -> ""

\* line 61: int() of those digits
DomainInt(digits) == IF digits = "2" THEN 2 ELSE 9

\* line 64: the line holds the label Question text:
HasQuestionLabel(line) == line \in QuestionLines

\* line 64: what follows the label and its whitespace on the line
AfterQuestionLabel(line) ==
    IF line = "Question text: What is X?" THEN "What is X?" ELSE ""

\* lines 64 and 68: the line starts with Options:
HasOptionsLabel(line) == line = "Options:"

\* lines 68 and 87: the line starts with Excerpt from source:
HasExcerptLabel(line) == line = "Excerpt from source: src"

\* line 87: what follows the label and its whitespace on the line
AfterExcerptLabel(line) == "src"

\* line 87: the line starts with ----Question
StartsMarker(line) == line \in MarkerLines \cup {"----Question x"}

\* line 73: the line starts with [A-D]\.
HasOptionLetter(line) == line \in OptionLines

\* line 73: the group ([A-D])
OptionLetterOf(line) ==
    CASE line = "A. foo" -> "A"
      [] line = "B. bar [CORRECT]" -> "B"
      [] OTHER -> "C"

\* line 73: what follows the letter, the dot and the whitespace on the line
AfterOptionLetter(line) ==
    CASE line = "A. foo" -> "foo"
      [] line = "B. bar [CORRECT]" -> "bar [CORRECT]"
      [] OTHER -> "baz"

\* line 78: '[CORRECT]' in the string
HasCorrectFlag(text) ==
    text \in {"bar [CORRECT]", "B. bar [CORRECT]", "E. qux [CORRECT]"}

\* line 79: replace('[CORRECT]', '') on one line of the text
WithoutFlag(text) ==
    CASE text = "bar [CORRECT]" -> "bar "
      [] text = "B. bar [CORRECT]" -> "B. bar "
      [] text = "E. qux [CORRECT]" -> "E. qux "
      [] OTHER -> text

\* str.strip on the last line of a text: the space left by a removed flag
StripRight(text) ==
    CASE text = "bar " -> "bar"
      [] text = "B. bar " -> "B. bar"
      [] text = "E. qux " -> "E. qux"
      [] OTHER -> text

\* the least position from i on whose line satisfies P, Len(lines) + 1 if none
FirstFrom(lines, i, P(_)) ==
    LET S == {j \in i..Len(lines) : P(lines[j])}
    IN  IF S = {} THEN Len(lines) + 1 ELSE CHOOSE j \in S : \A m \in S : j <= m

NotBlank(line) == ~IsBlank(line)

RECURSIVE StripLines(_)
\* str.strip on a text that starts with a non-blank line: the blank lines at
\* its end go
StripLines(text) ==
    IF text # <<>> /\ IsBlank(text[Len(text)])
    THEN StripLines(SubSeq(text, 1, Len(text) - 1))
    ELSE text

NoMatch == [found |-> FALSE, text |-> ""]

\* lines 52 and 57: the search of Domain:\s*(.+?)(?:\n|$) in the block and the
\* stripped group.  Without DOTALL the group stays on one line: the rest of
\* the label's line or, \s* running over the newlines, the next non-blank line
domain_match(block) ==
    LET i == FirstFrom(block, 1, HasDomainLabel)
        j == FirstFrom(block, i + 1, NotBlank)
    IN  IF i > Len(block) THEN NoMatch
        ELSE IF AfterDomainLabel(block[i]) # ""
             THEN [found |-> TRUE, text |-> AfterDomainLabel(block[i])]
        ELSE IF j > Len(block) THEN NoMatch
        ELSE [found |-> TRUE, text |-> block[j]]

\* lines 60-61
domain_number(domain_text) ==
    IF DomainDigits(domain_text) = "" THEN 0 ELSE DomainInt(DomainDigits(domain_text))

\* lines 64-65: Question text:\s*(.+?)(?=\nOptions:|\Z) with DOTALL, stripped;
\* <<>> is the empty string
question_text(block) ==
    LET i == FirstFrom(block, 1, HasQuestionLabel)
        j == FirstFrom(block, i + 1, NotBlank)
    IN  IF i > Len(block) THEN <<>>
        ELSE IF AfterQuestionLabel(block[i]) # ""
             THEN StripLines(<<AfterQuestionLabel(block[i])>> \o
                      SubSeq(block, i + 1, FirstFrom(block, i + 1, HasOptionsLabel) - 1))
        ELSE IF j > Len(block) THEN <<>>
        ELSE StripLines(SubSeq(block, j, FirstFrom(block, j + 1, HasOptionsLabel) - 1))

\* lines 68-69: Options:\s*(.+?)(?=\nExcerpt from source:|\Z) with DOTALL, stripped
options_text(block) ==
    LET i == FirstFrom(block, 1, HasOptionsLabel)
        j == FirstFrom(block, i + 1, NotBlank)
    IN  IF i > Len(block) \/ j > Len(block) THEN <<>>
        ELSE StripLines(SubSeq(block, j, FirstFrom(block, j + 1, HasExcerptLabel) - 1))

\* the text as matched, the flag left in it
clean_text_Flagged(text) == text

\* line 79: the text without the flag, stripped
clean_text(text) ==
    LET cleaned == [n \in 1..Len(text) |-> WithoutFlag(text[n])]
    IN  [n \in 1..Len(text) |-> IF n = Len(text) THEN StripRight(cleaned[n]) ELSE cleaned[n]]

\* lines 76-84: the option of one match of the option pattern
MkOption(letter, text) ==
    [letter |-> letter,
     text |-> clean_text(text),
     isCorrect |-> \E n \in 1..Len(text) : HasCorrectFlag(text[n])]

RECURSIVE OptionsFrom(_, _)
\* lines 73-84: the matches of ([A-D])\.\s*(.+?)(?=\n[A-D]\.|$) from line a on,
\* each running to the next line that starts with a letter of A-D and a dot
OptionsFrom(text, a) ==
    LET b == FirstFrom(text, a, HasOptionLetter)
        c == FirstFrom(text, b + 1, HasOptionLetter)
    IN  IF b > Len(text) THEN <<>>
        ELSE <<MkOption(OptionLetterOf(text[b]),
                        StripLines(<<AfterOptionLetter(text[b])>> \o
                                       SubSeq(text, b + 1, c - 1)))>>
                 \o OptionsFrom(text, c)

\* lines 87-88: Excerpt from source:\s*(.+?)(?=\n----Question|\Z) with DOTALL, stripped
excerpt_text(block) ==
    LET i == FirstFrom(block, 1, HasExcerptLabel)
    IN  IF i > Len(block) THEN <<>>
        ELSE StripLines(<<AfterExcerptLabel(block[i])>> \o
                 SubSeq(block, i + 1, FirstFrom(block, i + 1, StartsMarker) - 1))

\* lines 51-99, past int(): the questions the block adds, none or one
BlockQuestions(question_id, block) ==
    IF ~domain_match(block).found THEN <<>>
    ELSE IF question_text(block) = <<>> \/ OptionsFrom(options_text(block), 1) = <<>>
         THEN <<>>
    ELSE <<[id |-> question_id,
            domain |-> domain_match(block).text,
            domainNumber |-> domain_number(domain_match(block).text),
            questionText |-> question_text(block),
            options |-> OptionsFrom(options_text(block), 1),
            excerpt |-> excerpt_text(block)]>>

\* line 42: the lines of the block that the marker at line m introduces
BlockAt(lines, m) == SubSeq(lines, m + 1, FirstFrom(lines, m + 1, IsMarker) - 1)

\* mutant of CaughtBlock: the exception leaves parse_questions
CaughtBlock_Reraised(acc) == Raised

\* lines 102-104: the exception is caught and the block skipped
CaughtBlock(acc) == acc

RECURSIVE ParseLoop(_, _, _)
\* the loop of lines 46-104 from the marker at or after line m on
ParseLoop(lines, m, acc) ==
    LET k == FirstFrom(lines, m, IsMarker)
    IN  IF acc.raised \/ k > Len(lines) THEN acc
        ELSE IF IntRaises(MarkerDigits(lines[k]))
             THEN ParseLoop(lines, k + 1, CaughtBlock(acc))
        ELSE ParseLoop(lines, k + 1,
                 Returned(acc.value \o
                     BlockQuestions(IntOf(MarkerDigits(lines[k])), BlockAt(lines, k))))

\* parse_questions(content): the list returned, or the exception raised
parse_questions(lines) == ParseLoop(lines, 1, Returned(<<>>))

(***************************************************************************)
(* parse_questions as a function: the texts it is called on                *)
(***************************************************************************)
\* the record of the parser's round trip, after its marker
WellFormedBody ==
    <<"Domain: Domain 2: X", "Question text: What is X?", "Options:",
      "A. foo", "B. bar [CORRECT]", "C. baz", "Excerpt from source: src">>

\* the variants of each field of a record
DomainFields == {<<>>} \cup {<<line>> : line \in DomainLines}

QuestionFields == {<<>>} \cup {<<line>> : line \in QuestionLines}

OptionsFields ==
    {<<>>,
     <<"Options:">>,
     <<"Options:", "A. foo", "B. bar [CORRECT]", "C. baz">>,
     <<"Options:", "E. qux [CORRECT]">>,
     <<"Options:", "A. foo", "E. qux [CORRECT]">>,
     <<"Options:", "", "B. bar [CORRECT]", "zzz", "">>,
     <<"A. foo">>}

ExcerptFields ==
    {<<>>,
     <<"Excerpt from source: src">>,
     <<"Excerpt from source: src", "zzz", "----Question x", "zzz">>}

\* the orders of the four fields in a record: domain, question, options, excerpt
FieldOrders == {<<1, 2, 3, 4>>, <<2, 3, 4, 1>>, <<1, 3, 2, 4>>, <<1, 2, 4, 3>>}

\* the bodies of the texts of several records
RecordBodies ==
    {WellFormedBody,
     <<"Domain: Domain 9: X", "Question text: What is X?", "Options:", "A. foo">>,
     <<"Question text: What is X?", "Options:", "A. foo">>,
     <<"Domain: Governance", "Options:", "A. foo">>,
     <<"Domain: Governance", "Question text: What is X?", "Options:">>,
     <<"Question text: What is X?", "Options:", "A. foo", "Domain:">>}

RECURSIVE Flatten(_)
\* the concatenation of a sequence of texts
Flatten(texts) == IF texts = <<>> THEN <<>> ELSE Head(texts) \o Flatten(Tail(texts))

\* one record, its fields varied and ordered
FieldedText ==
    \E marker \in MarkerLines, d \in DomainFields, q \in QuestionFields,
       o \in OptionsFields, e \in ExcerptFields, order \in FieldOrders :
        uploaded_file =
            [present |-> TRUE,
             content |-> <<marker>> \o
                 Flatten([n \in 1..4 |-> <<d, q, o, e>>[order[n]]])]

\* up to MaxRecords records
RecordsText ==
    \E n \in 0..MaxRecords :
        \E markers \in [1..n -> MarkerLines], bodies \in [1..n -> RecordBodies] :
            uploaded_file =
                [present |-> TRUE,
                 content |-> Flatten([r \in 1..n |-> <<markers[r]>> \o bodies[r]])]

InitParse ==
    /\ SessionDefaults
    /\ questions = <<>>
    /\ exam_questions = <<>>
    /\ user_answers = <<>>
    /\ selected = "None"
    /\ ret = NotCalled
    /\ FieldedText \/ RecordsText

\* parse_questions(content) on the uploaded text
CallParse ==
    /\ ret = NotCalled
    /\ ret' = [fn |-> "parse_questions"] @@ parse_questions(uploaded_file.content)
    /\ UNCHANGED <<questions, mode, exam_questions, current_question_index,
                   user_answers, exam_end_time, show_results, show_review,
                   study_domain, study_num_questions, show_feedback,
                   current_answer_correct, file_uploaded, show_exit_confirm,
                   uploaded_file, selected>>
    /\ UNCHANGED scored

NextParse == CallParse

SpecParse == InitParse /\ [][NextParse]_vars

(***************************************************************************)
(* Claims C11-C20                                                          *)
(***************************************************************************)
\* the pool of the domain selected in the study setup
StudyPool == get_questions_by_domain(questions, study_domain)

\* on the setup screen of a domain with questions, the stored count is a
\* count the pool can serve
SetupCountInRange ==
    (OnStudySetup /\ Len(StudyPool) > 0) => study_num_questions \in 1..Len(StudyPool)

\* C11 (study-session assembly): whenever Start Study Session fires, the count
\* it draws with lies in 1..|pool| for the pool of the selected domain, the
\* draw does not raise and the study session starts; the new exam_questions
\* has exactly that many entries, every one a question of the pool, none twice.
C11_StudyAssembly ==
    /\ []SetupCountInRange
    /\ [][StartStudySession =>
             /\ study_num_questions' \in 1..Len(StudyPool)
             /\ mode' = "study"
             /\ Len(exam_questions') = study_num_questions'
             /\ Range(exam_questions') \subseteq Range(StudyPool)
             /\ \A i \in 1..Len(exam_questions') :
                    exam_questions'[i].domainNumber = study_domain
             /\ NoDuplicates(exam_questions')]_vars

\* a study session on the smaller pool, entered after the switch from the
\* default domain, whose pool is larger
C11_Witness ==
    /\ mode = "study"
    /\ study_domain = 3
    /\ study_num_questions = 1
    /\ Len(exam_questions) = 1
    /\ exam_questions[1].domainNumber = 3
    /\ Len(get_questions_by_domain(questions, 1)) > 1
    /\ user_answers = <<>>

\* every entry of the exam set is a question of the corpus, as the corpus holds it
ExamFromCorpus == SessionActive => Range(exam_questions) \subseteq Range(questions)

\* C12 (exam set originates from the corpus): while a session is active (mode
\* practice_exam or study), every element of exam_questions is an element of
\* the corpus questions; and no step taken during a session changes the corpus.
C12_ExamFromCorpus ==
    /\ []ExamFromCorpus
    /\ [][SessionActive => questions' = questions]_vars

\* the review screen of a practice exam of two entries drawn from the corpus
C12_Witness ==
    /\ mode = "practice_exam"
    /\ show_review
    /\ Len(exam_questions) = 2
    /\ questions # <<>>
    /\ \A i \in 1..Len(exam_questions) :
           \E j \in 1..Len(questions) : questions[j] = exam_questions[i]

\* parse_questions was called on the uploaded text
Parsed == ret # NotCalled /\ ret.fn = "parse_questions"

\* the positions of the markers ----Question <N> of a text, in order
MarkerPositions(lines) ==
    SelectSeq([m \in 1..Len(lines) |-> m], LAMBDA m : IsMarker(lines[m]))

\* the number of lines of a text that start with ----Question
MarkerCount(lines) == Cardinality({m \in 1..Len(lines) : StartsMarker(lines[m])})

\* the record holds a Domain: label
ContainsDomainLabel(body) == \E i \in 1..Len(body) : HasDomainLabel(body[i])

\* the record holds a Domain: label with something but newlines after it
DomainLabelFollowed(body) ==
    \E i \in 1..Len(body) :
        /\ HasDomainLabel(body[i])
        /\ \/ AfterDomainLabel(body[i]) # ""
           \/ \E j \in (i + 1)..Len(body) : NotBlank(body[j])

\* the record holds a Question text: label with text after it
NonEmptyQuestionText(body) ==
    \E i \in 1..Len(body) :
        /\ HasQuestionLabel(body[i])
        /\ \/ AfterQuestionLabel(body[i]) # ""
           \/ \E j \in (i + 1)..Len(body) : NotBlank(body[j])

\* the record holds an option line A-D in the region its first Options: label
\* opens, which an Excerpt from source: label closes unless the region starts
\* with it
RecoverableOption(body) ==
    \E i \in 1..Len(body), k \in 1..Len(body) :
        /\ i < k
        /\ HasOptionsLabel(body[i])
        /\ \A h \in 1..(i - 1) : ~HasOptionsLabel(body[h])
        /\ HasOptionLetter(body[k])
        /\ \A e \in (i + 1)..(k - 1) :
               HasExcerptLabel(body[e]) => \A j \in (i + 1)..(e - 1) : IsBlank(body[j])

\* the records the claim as stated has the parser return
StatedKept(lines) ==
    SelectSeq(MarkerPositions(lines),
              LAMBDA m : /\ ContainsDomainLabel(BlockAt(lines, m))
                         /\ NonEmptyQuestionText(BlockAt(lines, m))
                         /\ RecoverableOption(BlockAt(lines, m)))

\* the records the parser returns
Kept(lines) ==
    SelectSeq(MarkerPositions(lines),
              LAMBDA m : /\ ~IntRaises(MarkerDigits(lines[m]))
                         /\ DomainLabelFollowed(BlockAt(lines, m))
                         /\ NonEmptyQuestionText(BlockAt(lines, m))
                         /\ RecoverableOption(BlockAt(lines, m)))

\* the result is one question for each of the records at the positions kept,
\* in their order, under the number of its marker
ReturnsRecords(lines, result, kept) ==
    /\ ~result.raised
    /\ Len(result.value) = Len(kept)
    /\ \A n \in 1..Len(kept) :
           /\ n <= Len(result.value)
           /\ ~IntRaises(MarkerDigits(lines[kept[n]]))
           /\ result.value[n].id = IntOf(MarkerDigits(lines[kept[n]]))
    /\ Len(result.value) <= MarkerCount(lines)

WellFormedText == <<"----Question 1">> \o WellFormedBody

\* the question of the well-formed record
WellFormedQuestion ==
    [id |-> 1,
     domain |-> "Domain 2: X",
     domainNumber |-> 2,
     questionText |-> <<"What is X?">>,
     options |-> <<[letter |-> "A", text |-> <<"foo">>, isCorrect |-> FALSE],
                   [letter |-> "B", text |-> <<"bar">>, isCorrect |-> TRUE],
                   [letter |-> "C", text |-> <<"baz">>, isCorrect |-> FALSE]>>,
     excerpt |-> <<"src">>]

\* C14 (parser result on the well-formed record): for the single record
\* ----Question 1 / Domain: Domain 2: X / Question text: What is X? / Options: /
\* A. foo / B. bar [CORRECT] / C. baz / Excerpt from source: src the parser
\* yields exactly one question with id 1, domainNumber 2, questionText
\* 'What is X?', the options A, B, C in that order with the texts foo, bar, baz
\* (the flag stripped), isCorrect for B only, and excerpt 'src'.
C14_WellFormedRecord ==
    (Parsed /\ uploaded_file.content = WellFormedText) =>
        /\ ~ret.raised
        /\ ret.value = <<WellFormedQuestion>>

\* the well-formed record was parsed
C14_Witness ==
    /\ Parsed
    /\ uploaded_file.content = WellFormedText
    /\ Len(ret.value) = 1
    /\ Len(ret.value[1].options) = 3

\* C15 (domain number range): every question parse_questions returns has a
\* domainNumber in 0..5.
C15_DomainNumberRange ==
    Parsed => \A n \in 1..Len(ret.value) : ret.value[n].domainNumber \in 0..5

\* C16 (duplicate selection under shortfall): the fill of a deficient domain
\* draws from every corpus question outside that domain, chosen for another
\* quota or not.  So a corpus question occurs in the result at most once for
\* its own domain and once for each deficient domain other than its own; a
\* question occurs twice only when some domain is deficient; and on a corpus
\* with fewer questions than the result has entries some question does occur
\* at two positions.
C16_DuplicateSelection ==
    SelectReturned =>
        /\ LET deficient == {d \in Domains : Deficit(questions, d) > 0}
           IN  \A q \in Range(questions) :
                   Occurrences(ret.value, q)
                       <= (IF q.domainNumber \in Domains THEN 1 ELSE 0)
                              + Cardinality(deficient \ {q.domainNumber})
        /\ ~NoDuplicates(ret.value) => SomeDeficit(questions)
        /\ (questions # <<>> /\ Len(questions) < NominalLength(questions))
               => ~NoDuplicates(ret.value)

\* a practice exam of full length, one domain deficient by one question, with
\* the same corpus question at two positions
C16_Witness ==
    /\ SelectReturned
    /\ SomeDeficit(questions)
    /\ DeficitsCovered(questions)
    /\ Len(ret.value) = TOTAL_EXAM_QUESTIONS
    /\ \E i, j \in 1..Len(ret.value) : i < j /\ ret.value[i] = ret.value[j]

\* the uploader holds a file that parsed to no question
EmptyUpload == uploaded_file.present /\ uploaded_file.parsed = <<>>

\* the screens that read the corpus, and those that read the exam
CorpusScreens == {"practice_exam", "study_setup", "study"}

ExamScreens == {"practice_exam", "study"}

\* the corpus is non-empty on every screen that reads it, and on the exam
\* screens exam_questions[current_idx] exists and total is not zero
NonEmptySessions ==
    /\ mode \in CorpusScreens => questions # <<>>
    /\ mode \in ExamScreens =>
           /\ Len(exam_questions) >= 1
           /\ current_question_index + 1 \in 1..Len(exam_questions)

\* where the Practice Exam button is on offer, every outcome of
\* select_exam_questions on the corpus it would be called on is a non-empty
\* sequence
SelectionNonEmpty ==
    (OnMain /\ ModeButtonsShown(uploaded_file)) =>
        LET corpus == QuestionsAfterUpload(uploaded_file, questions)
        IN  /\ corpus # <<>>
            /\ \A r \in select_exam_questions(corpus) : ~r.raised /\ Len(r.value) >= 1

\* C17 (sessions exist only over a non-empty corpus and a non-empty exam): an
\* upload that parses to zero questions leaves the stored questions unchanged,
\* and the render that holds it starts no mode; the practice exam and the study
\* setup are entered only over a non-empty corpus; select_exam_questions
\* returns a non-empty sequence on every non-empty corpus; in mode practice_exam
\* or study the exam has at least one question and the current one exists.
C17_NonEmptySessions ==
    /\ [](NonEmptySessions /\ SelectionNonEmpty)
    /\ [][/\ (OnMain /\ EmptyUpload') => questions' = questions
          /\ (OnMain /\ EmptyUpload) => mode' = "main"
          /\ mode' \in CorpusScreens => questions' # <<>>]_vars

\* a file without questions uploaded over a stored corpus: the corpus stays
C17_Witness ==
    /\ OnMain
    /\ EmptyUpload
    /\ file_uploaded
    /\ questions # <<>>

\* the question screen of a practice exam whose remaining-time sample is 0
SampledExpired == OnPracticeQuestion /\ get_remaining_time(exam_end_time) = 0

\* C18 (no answer is recorded at or after expiry): a render of the practice exam
\* whose remaining-time sample is 0 returns before any handler runs; a click of
\* Previous, Next, Submit Answer or Finish Exam arriving then changes neither
\* user_answers nor current_question_index, the one step taken is the switch to
\* the results, and these score the answer map as it stood before expiry.
C18_NoAnswerAfterExpiry ==
    [][SampledExpired =>
           /\ user_answers' = user_answers
           /\ current_question_index' = current_question_index
           /\ exam_questions' = exam_questions
           /\ mode' = "practice_exam"
           /\ show_results' \/ exam_end_time' # exam_end_time]_vars

\* the results of a timed-out exam of two questions: the first answered, the
\* second reached and never recorded
C18_Witness ==
    /\ mode = "practice_exam"
    /\ show_results
    /\ get_remaining_time(exam_end_time) = 0
    /\ Len(exam_questions) = 2
    /\ current_question_index = 1
    /\ DOMAIN user_answers = {0}

\* off the exam screens neither screen flag is set
ScreenFlagsClear ==
    mode \in {"main", "study_setup"} => ~show_results /\ ~show_review

\* a step that starts a session
SessionStart == mode \notin ExamScreens /\ mode' \in ExamScreens

\* C19 (screen-flag invariant): in every reachable state with mode main or
\* study_setup, show_results and show_review are both false; hence every newly
\* started session, practice exam or study session, begins on the question
\* screen at position 0 with an empty answer map.
C19_ScreenFlags ==
    /\ []ScreenFlagsClear
    /\ [][SessionStart =>
              /\ ~show_results'
              /\ ~show_review'
              /\ current_question_index' = 0
              /\ user_answers' = <<>>]_vars

\* a study session started after a practice exam, on its first question
C19_Witness ==
    /\ mode = "study"
    /\ exam_end_time.set
    /\ ~show_results
    /\ ~show_review
    /\ current_question_index = 0
    /\ user_answers = <<>>

\* the step leaves the exam set and the answer map, the two inputs of
\* calculate_score, as they are
ScoreInputsKept ==
    /\ exam_questions' = exam_questions
    /\ user_answers' = user_answers

\* the step of the Exit button of the main menu: the session state is cleared
SessionCleared ==
    /\ mode = "main"
    /\ mode' = "main"
    /\ exam_questions' = <<>>
    /\ user_answers' = <<>>

\* C20 as stated (score stability after the transition to scoring): from the
\* moment show_results becomes true until the next session is started, no
\* action changes exam_questions or user_answers.
C20_AsStated == [][(scored /\ ~SessionStart) => ScoreInputsKept]_vars

\* C20 (score stability, amended): from the moment show_results becomes true
\* until the next session is started or the Exit button of the main menu clears
\* the session state, no action changes exam_questions or user_answers; so
\* calculate_score yields the same result on the results screen and on the
\* review screen, which no step leaves with another exam set or answer map.
C20_ScoreStability ==
    [][/\ (scored /\ ~SessionStart /\ ~SessionCleared) => ScoreInputsKept
       /\ show_results => ScoreInputsKept]_vars

\* back on the main menu after the results, the exam set and the answers kept
C20_Witness ==
    /\ mode = "main"
    /\ scored
    /\ exam_questions # <<>>
    /\ user_answers # <<>>

(***************************************************************************)
(* Claims C21-C24                                                          *)
(***************************************************************************)
\* a step within one study session
StudyStep == mode = "study" /\ mode' = "study"

\* every position of the exam has an answer
AllAnswered == DOMAIN user_answers = 0..(Len(exam_questions) - 1)

\* C21 (study mode answers every position exactly once, in order): within a
\* study session current_question_index never decreases, it moves from i only
\* to i + 1 and only when an answer is recorded at i, and a recorded answer is
\* never overwritten; so on the study results screen (and the review after it)
\* user_answers has an entry for every position 0..len(exam_questions)-1.
C21_StudyInOrder ==
    /\ []((mode = "study" /\ (show_results \/ show_review)) => AllAnswered)
    /\ [][StudyStep =>
              /\ current_question_index' >= current_question_index
              /\ current_question_index' # current_question_index =>
                     /\ current_question_index' = current_question_index + 1
                     /\ current_question_index \in DOMAIN user_answers
              /\ \A i \in DOMAIN user_answers :
                     /\ i \in DOMAIN user_answers'
                     /\ user_answers'[i] = user_answers[i]]_vars

\* the results of a study session of two questions, both answered
C21_Witness ==
    /\ OnStudyResults
    /\ Len(exam_questions) = 2
    /\ current_question_index = 1
    /\ DOMAIN user_answers = {0, 1}

\* mutant of ReviewMark: the answer is held against any option marked correct,
\* as the option lines below the header are
ReviewMark_AnyCorrect(question, answer) ==
    /\ answer.has
    /\ \E k \in 1..Len(question.options) :
           /\ question.options[k].isCorrect
           /\ question.options[k].letter = answer.value

\* is_correct of lines 436-438: the header mark of one question of the review
ReviewMark(question, answer) ==
    LET c == correct_option(question.options)
    IN  IF c # 0 /\ answer.has /\ answer.value # ""
        THEN answer.value = question.options[c].letter
        ELSE FALSE

\* position i adds 1 to the correct count of calculate_score
Credited(exam, answers, i) ==
    PositionScore(exam[i + 1], AnswerAt(answers, i)).credit = 1

\* C22 (displayed verdicts agree with the scorer): for every exam set and
\* answer map the review marks position i correct exactly when position i adds
\* to the correct count of calculate_score; the study feedback flag for the
\* letter recorded at position i is that same credit; and the number of
\* positions the review marks correct is the reported correct count.
C22_VerdictsAgree ==
    Scored =>
        /\ \A i \in Positions(exam_questions) :
               ReviewMark(exam_questions[i + 1], AnswerAt(user_answers, i))
                   <=> Credited(exam_questions, user_answers, i)
        /\ \A i \in Answered(exam_questions, user_answers) :
               (StudyVerdict(exam_questions[i + 1], user_answers[i]) = "True")
                   <=> Credited(exam_questions, user_answers, i)
        /\ Cardinality({i \in Positions(exam_questions) :
                            ReviewMark(exam_questions[i + 1], AnswerAt(user_answers, i))})
               = ret.correct

\* a scored exam with a credited position, an answered position without credit
\* on a question with no correct option, and an unanswered position
C22_Witness ==
    /\ Scored
    /\ ret.correct >= 1
    /\ \E i \in Answered(exam_questions, user_answers) :
           /\ correct_option(exam_questions[i + 1].options) = 0
           /\ ~ReviewMark(exam_questions[i + 1], AnswerAt(user_answers, i))
    /\ \E i \in Positions(exam_questions) : i \notin DOMAIN user_answers

\* the options of a question that are marked correct, by position
CorrectOptions(question) ==
    {k \in 1..Len(question.options) : question.options[k].isCorrect}

\* the question has more than one option marked correct
MultipleCorrect(question) == Cardinality(CorrectOptions(question)) > 1

\* the letter of the first option marked correct, in option order
FirstCorrectLetter(question) ==
    LET first == CHOOSE k \in CorrectOptions(question) :
                     \A j \in CorrectOptions(question) : k <= j
    IN  question.options[first].letter

\* C23 (multiple correct options): when the question at position i has more
\* than one option marked correct, calculate_score credits position i exactly
\* when the recorded answer is the letter of the first such option; an answer
\* that is the letter of a later option marked correct earns nothing, and the
\* position adds at most 1 to the correct count.
C23_FirstCorrectOnly ==
    Scored =>
        /\ \A i \in Positions(exam_questions) :
               MultipleCorrect(exam_questions[i + 1]) =>
                   /\ Credited(exam_questions, user_answers, i)
                          <=> /\ i \in DOMAIN user_answers
                              /\ user_answers[i] = FirstCorrectLetter(exam_questions[i + 1])
                   /\ PositionScore(exam_questions[i + 1],
                                    AnswerAt(user_answers, i)).credit \in {0, 1}
        /\ ret.correct
               <= Cardinality({i \in Answered(exam_questions, user_answers) :
                                   \/ ~MultipleCorrect(exam_questions[i + 1])
                                   \/ user_answers[i] = FirstCorrectLetter(exam_questions[i + 1])})

\* two questions with two correct options each: the one answered with the first
\* of them is credited, the one answered with the second is not
C23_Witness ==
    /\ Scored
    /\ ret.correct = 1
    /\ \E i, j \in Answered(exam_questions, user_answers) :
           /\ MultipleCorrect(exam_questions[i + 1])
           /\ MultipleCorrect(exam_questions[j + 1])
           /\ user_answers[i] = FirstCorrectLetter(exam_questions[i + 1])
           /\ user_answers[j] # FirstCorrectLetter(exam_questions[j + 1])
           /\ \E k \in CorrectOptions(exam_questions[j + 1]) :
                  exam_questions[j + 1].options[k].letter = user_answers[j]

(***************************************************************************)
(* format_time as a function: a string is the sequence of its characters   *)
(***************************************************************************)
DigitChars == <<"0", "1", "2", "3", "4", "5", "6", "7", "8", "9">>

RECURSIVE DecimalDigits(_)
\* str(n) for n >= 0: the decimal digits of n, most significant first
DecimalDigits(n) ==
    IF n < 10 THEN <<DigitChars[n + 1]>>
    ELSE DecimalDigits(n \div 10) \o <<DigitChars[(n % 10) + 1]>>

\* the format spec 02d for n >= 0: the digits of n, zero-padded on the left to
\* a width of at least two
ZeroPadded2(n) ==
    LET digits == DecimalDigits(n)
    IN  IF Len(digits) < 2 THEN <<"0">> \o digits ELSE digits

\* format_time(seconds) for seconds >= 0, lines 189-191
format_time(seconds) ==
    LET minutes == seconds \div 60
        secs == seconds % 60
    IN  ZeroPadded2(minutes) \o <<":">> \o ZeroPadded2(secs)

\* the seconds of the exam duration
ExamDurationSeconds == EXAM_DURATION_MINUTES * 60

\* the session defaults, but for the clock: it stands a whole number of
\* seconds, 0 up to the exam duration, before the deadline
InitFormat ==
    /\ mode = "main"
    /\ current_question_index = 0
    /\ show_results = FALSE
    /\ show_review = FALSE
    /\ study_domain = 1
    /\ study_num_questions = 10
    /\ show_feedback = FALSE
    /\ current_answer_correct = "None"
    /\ file_uploaded = FALSE
    /\ show_exit_confirm = FALSE
    /\ scored = FALSE
    /\ questions = <<>>
    /\ exam_questions = <<>>
    /\ user_answers = <<>>
    /\ uploaded_file = NoFile
    /\ selected = "None"
    /\ ret = NotCalled
    /\ \E seconds \in 0..ExamDurationSeconds :
           exam_end_time = [set |-> TRUE, ticks |-> seconds * TicksPerSecond]

\* format_time(remaining_time) of lines 279 and 292-295
CallFormat ==
    /\ ret = NotCalled
    /\ LET remaining_time == get_remaining_time(exam_end_time)
       IN  ret' = [fn |-> "format_time",
                   seconds |-> remaining_time,
                   value |-> format_time(remaining_time)]
    /\ UNCHANGED <<questions, mode, exam_questions, current_question_index,
                   user_answers, exam_end_time, show_results, show_review,
                   study_domain, study_num_questions, show_feedback,
                   current_answer_correct, file_uploaded, show_exit_confirm,
                   uploaded_file, selected, scored>>

NextFormat == CallFormat

SpecFormat == InitFormat /\ [][NextFormat]_vars

Formatted == ret.fn = "format_time"

\* the number a sequence of two digit characters writes, -1 if it is none
TwoDigitValue(chars) ==
    IF /\ Len(chars) = 2
       /\ \A n \in 1..2 : \E d \in 1..10 : DigitChars[d] = chars[n]
    THEN LET ValueOf(c) == (CHOOSE d \in 1..10 : DigitChars[d] = c) - 1
         IN  10 * ValueOf(chars[1]) + ValueOf(chars[2])
    ELSE 0 - 1

\* C24 (time formatting): for every number of seconds from 0 to the exam
\* duration, 9000, format_time returns MM:SS: exactly two minute digits, a
\* colon and exactly two second digits, the minutes being seconds div 60 and
\* the seconds part seconds mod 60.
C24_TimeFormat ==
    Formatted =>
        /\ ExamDurationSeconds = 9000
        /\ Len(ret.value) = 5
        /\ ret.value[3] = ":"
        /\ TwoDigitValue(SubSeq(ret.value, 1, 2)) = ret.seconds \div 60
        /\ TwoDigitValue(SubSeq(ret.value, 4, 5)) = ret.seconds % 60
        /\ ret.seconds % 60 \in 0..59

====
